---- MODULE Spec2Model ----
(***************************************************************************)
(* Model of internal/helm/helm.go: SelectChartVersion, the two fetchers    *)
(* getChartVersionsFromClassicRepo and getChartVersionsFromOCIRepo, and    *)
(* the resolver getLatestVersion.                                          *)
(*                                                                         *)
(* Go strings are modelled as sequences of one-character strings, so that  *)
(* prefix tests, version parsing and version formatting are computed       *)
(* character by character as the code and its semver library compute them. *)
(***************************************************************************)
EXTENDS Integers, Sequences, FiniteSets, TLC

\* ------------------------------------------------------------------------
\* Bounds of the model
\* ------------------------------------------------------------------------

\* Greatest number of raw versions handed to getLatestVersion by a direct call.
MaxLen == 3

\* Greatest number of versions a repository (index entry or tag listing) holds.
MaxTags == 3

\* ------------------------------------------------------------------------
\* Strings
\* ------------------------------------------------------------------------

Digits == <<"0", "1", "2", "3", "4", "5", "6", "7", "8", "9">>

Letters == {"a", "b", "c", "d", "e", "f", "g", "h", "i", "j", "k", "l", "m",
            "n", "o", "p", "q", "r", "s", "t", "u", "v", "w", "x", "y", "z"}

IsDigit(c) == \E i \in 1..10 : Digits[i] = c

\* [0-9A-Za-z\-], the identifier characters of the semver regular expression
IsIdChar(c) == IsDigit(c) \/ c \in Letters \/ c = "-"

\* Byte order of the characters that identifiers are made of (Go compares
\* strings bytewise): '-' < '0'..'9' < 'a'..'z'.
CharOrder == <<"-", "0", "1", "2", "3", "4", "5", "6", "7", "8", "9",
               "a", "b", "c", "d", "e", "f", "g", "h", "i", "j", "k", "l", "m",
               "n", "o", "p", "q", "r", "s", "t", "u", "v", "w", "x", "y", "z">>

Ord(c) == CHOOSE i \in 1..Len(CharOrder) : CharOrder[i] = c

\* s < o for Go strings (bytewise lexicographic)
RECURSIVE StrLess(_, _)
StrLess(s, o) ==
    IF o = <<>> THEN FALSE
    ELSE IF s = <<>> THEN TRUE
    ELSE IF s[1] = o[1] THEN StrLess(Tail(s), Tail(o))
    ELSE Ord(s[1]) < Ord(o[1])

\* strings.HasPrefix
HasPrefix(s, p) == Len(s) >= Len(p) /\ SubSeq(s, 1, Len(p)) = p

\* strings.TrimPrefix
TrimPrefix(s, p) == IF HasPrefix(s, p) THEN SubSeq(s, Len(p) + 1, Len(s)) ELSE s

\* strings.TrimSuffix
TrimSuffix(s, p) ==
    IF Len(s) >= Len(p) /\ SubSeq(s, Len(s) - Len(p) + 1, Len(s)) = p
    THEN SubSeq(s, 1, Len(s) - Len(p))
    ELSE s

\* strings.Split(s, sep) for a one-character separator
RECURSIVE Split(_, _)
Split(s, sep) ==
    IF \A i \in 1..Len(s) : s[i] # sep THEN <<s>>
    ELSE LET k == CHOOSE i \in 1..Len(s) :
                      s[i] = sep /\ \A j \in 1..(i - 1) : s[j] # sep
         IN  <<SubSeq(s, 1, k - 1)>> \o Split(SubSeq(s, k + 1, Len(s)), sep)

\* Length of the longest prefix of s made of digits
DigitPrefixLen(s) ==
    CHOOSE n \in 0..Len(s) :
        /\ \A i \in 1..n : IsDigit(s[i])
        /\ (n < Len(s) => ~IsDigit(s[n + 1]))

\* Length of the longest prefix of s made of identifier characters and dots
IdRunLen(s) ==
    CHOOSE n \in 0..Len(s) :
        /\ \A i \in 1..n : IsIdChar(s[i]) \/ s[i] = "."
        /\ (n < Len(s) => ~(IsIdChar(s[n + 1]) \/ s[n + 1] = "."))

\* [0-9A-Za-z\-]+(\.[0-9A-Za-z\-]+)* : dot-separated, no empty identifier
IsIdList(s) == s # <<>> /\ \A i \in 1..Len(Split(s, ".")) : Split(s, ".")[i] # <<>>

DigitVal(c) == (CHOOSE i \in 1..10 : Digits[i] = c) - 1

\* strconv.ParseInt(s, 10, 64) of a digit string (the strings of the model are
\* far too short to overflow 64 bits)
RECURSIVE DigitsVal(_)
DigitsVal(s) ==
    IF s = <<>> THEN 0
    ELSE DigitsVal(SubSeq(s, 1, Len(s) - 1)) * 10 + DigitVal(s[Len(s)])

\* fmt's %d of a non-negative number
RECURSIVE Itoa(_)
Itoa(n) ==
    IF n < 10 THEN <<Digits[n + 1]>>
    ELSE Itoa(n \div 10) \o <<Digits[(n % 10) + 1]>>

\* strconv.ParseInt accepts an optional sign followed by digits
IsInt(s) ==
    LET d == IF s # <<>> /\ s[1] = "-" THEN Tail(s) ELSE s
    IN  d # <<>> /\ \A i \in 1..Len(d) : IsDigit(d[i])

IntVal(s) == IF s[1] = "-" THEN 0 - DigitsVal(Tail(s)) ELSE DigitsVal(s)

\* ------------------------------------------------------------------------
\* Semantic versions, as the calls of getLatestVersion into the
\* Masterminds/semver package compute them
\* ------------------------------------------------------------------------

\* The optional group (\.[0-9]+)? at the head of s
DotNum(s) ==
    IF Len(s) >= 2 /\ s[1] = "." /\ DigitPrefixLen(Tail(s)) > 0
    THEN [present |-> TRUE,
          val     |-> DigitsVal(SubSeq(s, 2, 1 + DigitPrefixLen(Tail(s)))),
          rest    |-> SubSeq(s, 2 + DigitPrefixLen(Tail(s)), Len(s))]
    ELSE [present |-> FALSE, val |-> 0, rest |-> s]

\* The optional groups (-(ids))? and (\+(ids))? at the head of s, for the
\* marker character m
Tagged(s, m) ==
    IF s # <<>> /\ s[1] = m
    THEN LET n == IdRunLen(Tail(s))
         IN  [ok   |-> IsIdList(SubSeq(s, 2, 1 + n)),
              ids  |-> SubSeq(s, 2, 1 + n),
              rest |-> SubSeq(s, 2 + n, Len(s))]
    ELSE [ok |-> TRUE, ids |-> <<>>, rest |-> s]

\* semver.NewVersion: the string must match
\*   ^v?([0-9]+)(\.[0-9]+)?(\.[0-9]+)?(-(ids))?(\+(ids))?$
\* and an omitted minor or patch is 0. ok = FALSE is ErrInvalidSemVer.
NewVersion(raw) ==
    LET s    == IF raw # <<>> /\ raw[1] = "v" THEN Tail(raw) ELSE raw
        n    == DigitPrefixLen(s)
        mnr  == DotNum(SubSeq(s, n + 1, Len(s)))
        pth  == DotNum(mnr.rest)
        pre  == Tagged(pth.rest, "-")
        meta == Tagged(pre.rest, "+")
    IN  [ok       |-> n > 0 /\ pre.ok /\ meta.ok /\ meta.rest = <<>>,
         major    |-> DigitsVal(SubSeq(s, 1, n)),
         minor    |-> mnr.val,
         patch    |-> pth.val,
         pre      |-> pre.ids,
         metadata |-> meta.ids,
         original |-> raw]

\* (*Version).String: "%d.%d.%d", then "-" and the prerelease, then "+" and
\* the metadata, each only when present
String(v) ==
    Itoa(v.major) \o <<".">> \o Itoa(v.minor) \o <<".">> \o Itoa(v.patch)
        \o (IF v.pre # <<>> THEN <<"-">> \o v.pre ELSE <<>>)
        \o (IF v.metadata # <<>> THEN <<"+">> \o v.metadata ELSE <<>>)

\* comparePrePart: one dot-separated prerelease identifier against another
ComparePrePart(s, o) ==
    IF s = o THEN 0
    ELSE IF s = <<>> THEN -1
    ELSE IF o = <<>> THEN 1
    ELSE IF ~IsInt(s) /\ ~IsInt(o) THEN (IF StrLess(o, s) THEN 1 ELSE -1)
    ELSE IF ~IsInt(o) THEN -1
    ELSE IF ~IsInt(s) THEN 1
    ELSE IF IntVal(s) > IntVal(o) THEN 1 ELSE -1

\* comparePrerelease: identifier by identifier, a missing one being ""
RECURSIVE ComparePreParts(_, _)
ComparePreParts(sp, op) ==
    IF sp = <<>> /\ op = <<>> THEN 0
    ELSE LET st == IF sp = <<>> THEN <<>> ELSE Head(sp)
             ot == IF op = <<>> THEN <<>> ELSE Head(op)
             d  == ComparePrePart(st, ot)
         IN  IF d # 0 THEN d
             ELSE ComparePreParts(IF sp = <<>> THEN <<>> ELSE Tail(sp),
                                  IF op = <<>> THEN <<>> ELSE Tail(op))

CompareNum(a, b) == IF a < b THEN -1 ELSE IF a > b THEN 1 ELSE 0

\* (*Version).Compare: major, minor, patch, then the prerelease (a version
\* with one orders before the same version without); metadata is not read
Compare(v, o) ==
    IF CompareNum(v.major, o.major) # 0 THEN CompareNum(v.major, o.major)
    ELSE IF CompareNum(v.minor, o.minor) # 0 THEN CompareNum(v.minor, o.minor)
    ELSE IF CompareNum(v.patch, o.patch) # 0 THEN CompareNum(v.patch, o.patch)
    ELSE IF v.pre = <<>> /\ o.pre = <<>> THEN 0
    ELSE IF v.pre = <<>> THEN 1
    ELSE IF o.pre = <<>> THEN -1
    ELSE ComparePreParts(Split(v.pre, "."), Split(o.pre, "."))

\* semver.Collection.Less, the order sort.Sort is given
Less(v, o) == Compare(v, o) < 0

\* ------------------------------------------------------------------------
\* Constraints, as semver.NewConstraint and (*Constraints).Check compute
\* them. Modelled: a comma-separated conjunction of comparisons, each an
\* optional operator followed by a version. Not modelled, and absent from
\* the constraints of the model: "||", hyphen ranges, blanks, wildcards.
\* ------------------------------------------------------------------------

OpChars == {"=", "!", ">", "<", "~", "^"}

ConstraintOps ==
    {<<>>, <<"=">>, <<"!", "=">>, <<">">>, <<"<">>, <<">", "=">>, <<"=", ">">>,
     <<"<", "=">>, <<"=", "<">>, <<"~">>, <<"~", ">">>, <<"^">>}

OpPrefixLen(s) ==
    CHOOSE n \in 0..Len(s) :
        /\ \A i \in 1..n : s[i] \in OpChars
        /\ (n < Len(s) => s[n + 1] \notin OpChars)

\* parseConstraint: operator, then version; a version without a minor is
\* "dirty" (1 stands for 1.x.x) and is completed with zeros
ParseConstraint(part) ==
    LET n   == OpPrefixLen(part)
        ver == SubSeq(part, n + 1, Len(part))
        con == NewVersion(ver)
        bare == IF ver # <<>> /\ ver[1] = "v" THEN Tail(ver) ELSE ver
        mnr == DotNum(SubSeq(bare, DigitPrefixLen(bare) + 1, Len(bare)))
    IN  [ok         |-> SubSeq(part, 1, n) \in ConstraintOps /\ con.ok,
         op         |-> SubSeq(part, 1, n),
         con        |-> con,
         minorDirty |-> ~mnr.present]

\* semver.NewConstraint: every comparison must parse
NewConstraint(str) ==
    LET parts == Split(str, ",")
        cs    == [i \in 1..Len(parts) |-> ParseConstraint(parts[i])]
    IN  [ok |-> \A i \in 1..Len(cs) : cs[i].ok, ands |-> cs]

\* A prerelease version never satisfies a comparison whose own version has
\* no prerelease
PreBlocked(v, c) == v.pre # <<>> /\ c.con.pre = <<>>

ConstraintTilde(v, c) ==
    /\ ~PreBlocked(v, c)
    /\ ~Less(v, c.con)
    /\ v.major = c.con.major
    /\ (v.minor = c.con.minor \/ c.minorDirty)

ConstraintCaret(v, c) ==
    /\ ~PreBlocked(v, c)
    /\ ~Less(v, c.con)
    /\ v.major = c.con.major

ConstraintLessThan(v, c, orEqual) ==
    /\ ~PreBlocked(v, c)
    /\ IF ~c.minorDirty
       THEN (IF orEqual THEN Compare(v, c.con) <= 0 ELSE Compare(v, c.con) < 0)
       ELSE v.major <= c.con.major

\* (*constraint).check, by operator
CheckOne(v, c) ==
    IF c.op \in {<<>>, <<"=">>}
        THEN IF c.minorDirty THEN ConstraintTilde(v, c)
             ELSE ~PreBlocked(v, c) /\ Compare(v, c.con) = 0
    ELSE IF c.op = <<"!", "=">>
        THEN IF c.minorDirty THEN ~PreBlocked(v, c) /\ v.major # c.con.major
             ELSE Compare(v, c.con) # 0
    ELSE IF c.op = <<">">>
        THEN ~PreBlocked(v, c) /\ Compare(v, c.con) = 1
    ELSE IF c.op \in {<<">", "=">>, <<"=", ">">>}
        THEN ~PreBlocked(v, c) /\ Compare(v, c.con) >= 0
    ELSE IF c.op = <<"<">>
        THEN ConstraintLessThan(v, c, FALSE)
    ELSE IF c.op \in {<<"<", "=">>, <<"=", "<">>}
        THEN ConstraintLessThan(v, c, TRUE)
    ELSE IF c.op \in {<<"~">>, <<"~", ">">>}
        THEN ConstraintTilde(v, c)
    ELSE ConstraintCaret(v, c)

\* (*Constraints).Check: every comparison of the conjunction holds
Check(cons, v) == \A i \in 1..Len(cons.ands) : CheckOne(v, cons.ands[i])

\* ------------------------------------------------------------------------
\* Inputs of the model
\* ------------------------------------------------------------------------

V100 == <<"1", ".", "0", ".", "0">>

V12 == <<"1", ".", "2">>

VV120 == <<"v", "1", ".", "2", ".", "0">>

V200B == <<"2", ".", "0", ".", "0", "-", "b">>

V200X == <<"2", ".", "0", ".", "0", "+", "x">>

V200Y == <<"2", ".", "0", ".", "0", "+", "y">>

VX1 == <<"x", ".", "1">>

V1DD0 == <<"1", ".", ".", "0">>

VV12 == <<"v", "1", ".", "2">>

C_CARET1 == <<"^", "1", ".", "0", ".", "0">>

C_CARET3 == <<"^", "3", ".", "0", ".", "0">>

C_GE200A == <<">", "=", "2", ".", "0", ".", "0", "-", "a">>

C_RANGE == <<">", "=", "1", ".", "2", ",", "<", "2", ".", "0", ".", "0">>

C_BAD == <<"^", "^", "1">>

U_HTTP == <<"h", "t", "t", "p", ":", "/", "/", "h">>

U_HTTPS == <<"h", "t", "t", "p", "s", ":", "/", "/", "h", "/">>

U_OCI == <<"o", "c", "i", ":", "/", "/", "r", "/", "c">>

U_OCINOREPO == <<"o", "c", "i", ":", "/", "/", "r">>

U_FTP == <<"f", "t", "p", ":", "/", "/", "h">>

\* Raw version strings handed to getLatestVersion: plain, shortened and
\* "v"-prefixed forms, a prerelease, two builds of one version, and two
\* strings that are no semantic version
RawVersions ==
    {V100, V12, VV120, V200B, V200X, V200Y, VX1, V1DD0}

\* Raw version strings a repository serves (index `version` values, OCI tags)
RepoVersions ==
    {V100, VV12, VX1}

\* Constraint strings: none, well-formed ones, and a malformed one
Constraints ==
    {<<>>, C_CARET1, C_CARET3, C_GE200A, C_RANGE, C_BAD}

RepoURLs ==
    {U_HTTP, U_HTTPS, U_OCI, U_OCINOREPO, U_FTP}

Charts == {<<>>, <<"c">>}

\* semver.NewVersion of every raw version string of the model, computed once
ParsedVersions == [r \in RawVersions \cup RepoVersions |-> NewVersion(r)]

Parse(raw) == ParsedVersions[raw]

\* semver.NewConstraint of every constraint string of the model, computed once
ParsedConstraints == [c \in Constraints |-> NewConstraint(c)]

Constraint(str) == ParsedConstraints[str]

\* Sequences over S of length at most n
SeqsUpTo(S, n) == UNION {[1..k -> S] : k \in 0..n}

\* ------------------------------------------------------------------------
\* Errors: nil, or a chain of layers, outermost first. A layer is a message
\* and the strings formatted into it.
\* ------------------------------------------------------------------------

Nil == <<>>

Layer(msg, args) == [msg |-> msg, args |-> args]

\* errors.Errorf and the errors that libraries return
Errorf(msg, args) == <<Layer(msg, args)>>

\* A variant of Wrapf that wraps a nil error too, as fmt.Errorf would
WrapfAlways(e, msg, args) == <<Layer(msg, args)>> \o e

\* errors.Wrapf: nil for a nil error, else the error under a new layer
Wrapf(e, msg, args) == IF e = Nil THEN Nil ELSE <<Layer(msg, args)>> \o e

\* ------------------------------------------------------------------------
\* SelectChartVersion: classification of the repository URL
\* ------------------------------------------------------------------------

P_HTTP == <<"h", "t", "t", "p", ":", "/", "/">>

P_HTTPS == <<"h", "t", "t", "p", "s", ":", "/", "/">>

P_OCI == <<"o", "c", "i", ":", "/", "/">>

S_INDEX == <<"/", "i", "n", "d", "e", "x", ".", "y", "a", "m", "l">>

\* A variant that knows https:// only
IsClassicURLHttpsOnly(url) == HasPrefix(url, P_HTTPS)

IsClassicURL(url) == HasPrefix(url, P_HTTP) \/ HasPrefix(url, P_HTTPS)

IsOCIURL(url) == HasPrefix(url, P_OCI)

\* getChartVersionsFromClassicRepo: the URL of the index document
IndexURL(url) == TrimSuffix(url, <<"/">>) \o S_INDEX

\* registry.ParseReference of the URL without its scheme: it needs a
\* registry and, after the first "/", a repository (the finer checks of
\* host and path syntax are not modelled)
ParseReferenceOK(url) ==
    LET parts == Split(TrimPrefix(url, P_OCI), "/")
    IN  Len(parts) >= 2 /\ parts[1] # <<>> /\ parts[2] # <<>>

\* ------------------------------------------------------------------------
\* getChartVersionsFromOCIRepo: the callback handed to rep.Tags
\* ------------------------------------------------------------------------

\* A variant that keeps the last page only
KeepLastPage(acc, page) == page

AppendPage(acc, page) == acc \o page

\* ------------------------------------------------------------------------
\* getLatestVersion
\* ------------------------------------------------------------------------

\* A variant that reports the last unparsable entry
LastUnparsable(raws) ==
    IF \A i \in 1..Len(raws) : Parse(raws[i]).ok THEN 0
    ELSE CHOOSE i \in 1..Len(raws) :
             /\ ~Parse(raws[i]).ok
             /\ \A j \in (i + 1)..Len(raws) : Parse(raws[j]).ok

\* The parse loop: the index of the entry it fails on, 0 when all parse
FirstUnparsable(raws) ==
    IF \A i \in 1..Len(raws) : Parse(raws[i]).ok THEN 0
    ELSE CHOOSE i \in 1..Len(raws) :
             /\ ~Parse(raws[i]).ok
             /\ \A j \in 1..(i - 1) : Parse(raws[j]).ok

ParseAll(raws) == [i \in 1..Len(raws) |-> Parse(raws[i])]

IsAscending(vs) == \A i, j \in 1..Len(vs) : i < j => ~Less(vs[j], vs[i])

Rearrangements(vs) ==
    {[i \in 1..Len(vs) |-> vs[f[i]]] : f \in Permutations(1..Len(vs))}

\* A variant that leaves the slice in any order
AnyOrder(vs) == Rearrangements(vs)

\* sort.Sort(semver.Collection(semvers)): the slice rearranged into ascending
\* order by Less. sort.Sort is documented as not guaranteed to be stable, and
\* which of the ascending orders it produces depends on the algorithm of the
\* Go release and on the length of the slice, so every ascending
\* rearrangement is a possible outcome.
SortResults(vs) == {p \in Rearrangements(vs) : IsAscending(p)}

\* A variant of the loop that walks from least to greatest
RECURSIVE ScanUp(_, _, _)
ScanUp(sorted, cons, i) ==
    IF i > Len(sorted) THEN <<>>
    ELSE IF Check(cons, sorted[i]) THEN String(sorted[i])
    ELSE ScanUp(sorted, cons, i + 1)

\* The loop for i := len(semvers) - 1; i >= 0; i--
RECURSIVE ScanDown(_, _, _)
ScanDown(sorted, cons, i) ==
    IF i = 0 THEN <<>>
    ELSE IF Check(cons, sorted[i]) THEN String(sorted[i])
    ELSE ScanDown(sorted, cons, i - 1)

FirstSatisfying(sorted, cons) == ScanUp(sorted, cons, 1)

\* The version the constraint loop returns, "" when none satisfies
LatestSatisfying(sorted, cons) == ScanDown(sorted, cons, Len(sorted))

\* getLatestVersion after a sort that left `sorted`: what it returns, or that
\* it panics indexing semvers[len(semvers)-1] of an empty slice
getLatestVersionResult(raws, constraintStr, sorted) ==
    IF FirstUnparsable(raws) # 0 THEN
        [panic |-> FALSE, version |-> <<>>,
         err |-> Wrapf(Errorf("Invalid Semantic Version", <<>>),
                       "error parsing version", <<raws[FirstUnparsable(raws)]>>)]
    ELSE IF constraintStr = <<>> THEN
        IF Len(sorted) = 0
        THEN [panic |-> TRUE, version |-> <<>>, err |-> Nil]
        ELSE [panic |-> FALSE, version |-> String(sorted[Len(sorted)]), err |-> Nil]
    ELSE IF ~Constraint(constraintStr).ok THEN
        [panic |-> FALSE, version |-> <<>>,
         err |-> Wrapf(Errorf("improper constraint", <<constraintStr>>),
                       "error parsing constraint", <<constraintStr>>)]
    ELSE
        [panic |-> FALSE,
         version |-> LatestSatisfying(sorted, Constraint(constraintStr)),
         err |-> Nil]

\* ------------------------------------------------------------------------
\* State
\* ------------------------------------------------------------------------

VARIABLES
    entry,             \* the function the caller called
    repoURL,           \* SelectChartVersion's arguments
    chart,
    semverConstraint,
    ctx,               \* the caller's context: "active" or "cancelled"
    pc,                \* where the call is
    hung,              \* the upstream has stopped answering the pending request
    requests,          \* the index URLs a GET was issued for, in order
    invoked,           \* the helpers called so far, in order
    delivered,         \* the tag pages the registry has delivered, in order
    versions,          \* the raw version list (the fetcher's, then the resolver's)
    semvers,           \* getLatestVersion's slice after sort.Sort
    result,            \* the version returned to the caller
    err                \* the error returned to the caller

vars == <<entry, repoURL, chart, semverConstraint, ctx, pc, hung, requests,
          invoked, delivered, versions, semvers, result, err>>

\* A call of SelectChartVersion, or a call of getLatestVersion by itself
Init ==
    /\ entry \in {"SelectChartVersion", "getLatestVersion"}
    /\ semverConstraint \in Constraints
    /\ IF entry = "SelectChartVersion"
       THEN /\ repoURL \in RepoURLs
            /\ chart \in Charts
            /\ versions = <<>>
            /\ pc = "SelectChartVersion"
       ELSE /\ repoURL = <<>>
            /\ chart = <<>>
            /\ versions \in SeqsUpTo(RawVersions, MaxLen)
            /\ pc = "getLatestVersion"
    /\ ctx = "active"
    /\ hung = FALSE
    /\ requests = <<>>
    /\ invoked = <<>>
    /\ delivered = <<>>
    /\ semvers = <<>>
    /\ result = <<>>
    /\ err = Nil

\* SelectChartVersion's wrapping of a fetcher's error
WrapRetrieve(e) ==
    Wrapf(e, "error retrieving versions of chart from repository", <<chart, repoURL>>)

\* return "", err
ReturnError(e) ==
    /\ pc' = "returned"
    /\ result' = <<>>
    /\ err' = e

\* ------------------------------------------------------------------------
\* SelectChartVersion up to the fetcher's first network request
\* ------------------------------------------------------------------------

\* http:// or https://: getChartVersionsFromClassicRepo builds the index URL
\* and issues the GET with http.NewRequest and http.DefaultClient, neither
\* of which is given ctx
SelectClassic ==
    /\ pc = "SelectChartVersion"
    /\ IsClassicURL(repoURL)
    /\ invoked' = Append(invoked, "getChartVersionsFromClassicRepo")
    /\ requests' = Append(requests, IndexURL(repoURL))
    /\ pc' = "classicGET"
    /\ UNCHANGED <<entry, repoURL, chart, semverConstraint, ctx, hung,
                   delivered, versions, semvers, result, err>>

\* oci://: getChartVersionsFromOCIRepo parses the reference and starts
\* rep.Tags(ctx, ...) with an empty accumulator
SelectOCI ==
    /\ pc = "SelectChartVersion"
    /\ ~IsClassicURL(repoURL)
    /\ IsOCIURL(repoURL)
    /\ invoked' = Append(invoked, "getChartVersionsFromOCIRepo")
    /\ IF ParseReferenceOK(repoURL)
       THEN /\ pc' = "ociTags"
            /\ versions' = <<>>
            /\ UNCHANGED <<result, err>>
       ELSE /\ ReturnError(WrapRetrieve(
                   Wrapf(Errorf("invalid reference", <<>>),
                         "error parsing repository URL", <<repoURL>>)))
            /\ UNCHANGED versions
    /\ UNCHANGED <<entry, repoURL, chart, semverConstraint, ctx, hung,
                   requests, delivered, semvers>>

\* Any other URL
SelectInvalid ==
    /\ pc = "SelectChartVersion"
    /\ ~IsClassicURL(repoURL)
    /\ ~IsOCIURL(repoURL)
    /\ ReturnError(Errorf("repository URL is invalid", <<repoURL>>))
    /\ UNCHANGED <<entry, repoURL, chart, semverConstraint, ctx, hung,
                   requests, invoked, delivered, versions, semvers>>

\* ------------------------------------------------------------------------
\* The environment: the caller's context and the upstream
\* ------------------------------------------------------------------------

Pending == pc \in {"classicGET", "ociTags"}

\* The caller cancels ctx (or its deadline passes) during the call
Cancel ==
    /\ pc \in {"SelectChartVersion", "classicGET", "ociTags"}
    /\ ctx = "active"
    /\ ctx' = "cancelled"
    /\ UNCHANGED <<entry, repoURL, chart, semverConstraint, pc, hung, requests,
                   invoked, delivered, versions, semvers, result, err>>

\* The upstream stops answering the pending request
UpstreamHangs ==
    /\ Pending
    /\ ~hung
    /\ hung' = TRUE
    /\ UNCHANGED <<entry, repoURL, chart, semverConstraint, ctx, pc, requests,
                   invoked, delivered, versions, semvers, result, err>>

\* ------------------------------------------------------------------------
\* getChartVersionsFromClassicRepo from the response on
\* ------------------------------------------------------------------------

\* The ways the fetch fails, each with its message and the string it names
ClassicFailures ==
    {Wrapf(Errorf("transport error", <<>>),
           "error querying repository index", <<IndexURL(repoURL)>>),
     Errorf("received unexpected HTTP status when querying repository index",
            <<IndexURL(repoURL)>>),
     Wrapf(Errorf("read error", <<>>),
           "error reading repository index", <<IndexURL(repoURL)>>),
     Wrapf(Errorf("yaml error", <<>>),
           "error unmarshaling repository index", <<IndexURL(repoURL)>>),
     Errorf("no versions of chart found in repository index",
            <<chart, IndexURL(repoURL)>>)}

\* http.DefaultClient.Do returns an error, or the response is not a 200, or
\* its body cannot be read or unmarshaled, or the index has no entry for chart
ClassicFails ==
    /\ pc = "classicGET"
    /\ ~hung
    /\ \E e \in ClassicFailures : ReturnError(WrapRetrieve(e))
    /\ UNCHANGED <<entry, repoURL, chart, semverConstraint, ctx, hung,
                   requests, invoked, delivered, versions, semvers>>

\* The index has entries for chart: their `version` values, as listed
ClassicSucceeds ==
    /\ pc = "classicGET"
    /\ ~hung
    /\ \E entries \in SeqsUpTo(RepoVersions, MaxTags) : versions' = entries
    /\ pc' = "getLatestVersion"
    /\ UNCHANGED <<entry, repoURL, chart, semverConstraint, ctx, hung,
                   requests, invoked, delivered, semvers, result, err>>

\* ------------------------------------------------------------------------
\* getChartVersionsFromOCIRepo: rep.Tags(ctx, fn)
\* ------------------------------------------------------------------------

\* The registry delivers the next page and Tags calls fn on it
OCIPage ==
    /\ pc = "ociTags"
    /\ ~hung
    /\ \E page \in SeqsUpTo(RepoVersions, MaxTags - Len(versions)) :
           /\ page # <<>>
           /\ versions' = AppendPage(versions, page)
           /\ delivered' = Append(delivered, page)
    /\ UNCHANGED <<entry, repoURL, chart, semverConstraint, ctx, pc, hung,
                   requests, invoked, semvers, result, err>>

\* The listing is exhausted: Tags returns nil and the fetcher returns the
\* accumulated versions. (The return statement names `versions` beside the
\* call of Tags; the gc compiler evaluates the call first and reads the
\* variable when it returns, which is what is modelled.)
OCIDone ==
    /\ pc = "ociTags"
    /\ ~hung
    /\ pc' = "getLatestVersion"
    /\ UNCHANGED <<entry, repoURL, chart, semverConstraint, ctx, hung, requests,
                   invoked, delivered, versions, semvers, result, err>>

\* A request of the listing fails
OCIFails ==
    /\ pc = "ociTags"
    /\ ~hung
    /\ ReturnError(WrapRetrieve(
           Wrapf(Errorf("registry error", <<>>),
                 "error retrieving versions of chart from repository", <<repoURL>>)))
    /\ UNCHANGED <<entry, repoURL, chart, semverConstraint, ctx, hung,
                   requests, invoked, delivered, versions, semvers>>

\* ctx is cancelled: the request made with ctx ends, answered or not
OCICancelled ==
    /\ pc = "ociTags"
    /\ ctx = "cancelled"
    /\ ReturnError(WrapRetrieve(
           Wrapf(Errorf("context canceled", <<>>),
                 "error retrieving versions of chart from repository", <<repoURL>>)))
    /\ UNCHANGED <<entry, repoURL, chart, semverConstraint, ctx, hung,
                   requests, invoked, delivered, versions, semvers>>

\* ------------------------------------------------------------------------
\* getLatestVersion, and SelectChartVersion's return of its result
\* ------------------------------------------------------------------------

\* SelectChartVersion's wrapping of the resolver's error; a direct call of
\* getLatestVersion gets the error as it is
WrapLatest(e) ==
    IF entry = "SelectChartVersion"
    THEN Wrapf(e, "error determining latest version of chart from repository",
               <<chart, repoURL>>)
    ELSE e

getLatestVersion ==
    /\ pc = "getLatestVersion"
    /\ invoked' = Append(invoked, "getLatestVersion")
    /\ \E sorted \in (IF FirstUnparsable(versions) # 0 THEN {<<>>}
                      ELSE SortResults(ParseAll(versions))) :
           LET r == getLatestVersionResult(versions, semverConstraint, sorted)
           IN  /\ semvers' = sorted
               /\ pc' = IF r.panic THEN "panicked" ELSE "returned"
               /\ result' = r.version
               /\ err' = WrapLatest(r.err)
    /\ UNCHANGED <<entry, repoURL, chart, semverConstraint, ctx, hung,
                   requests, delivered, versions>>

\* ------------------------------------------------------------------------
\* Specifications
\* ------------------------------------------------------------------------

\* The steps of the program and of a responsive upstream
Step ==
    \/ SelectClassic
    \/ SelectOCI
    \/ SelectInvalid
    \/ ClassicFails
    \/ ClassicSucceeds
    \/ OCIPage
    \/ OCIDone
    \/ OCIFails
    \/ OCICancelled
    \/ getLatestVersion

Next == Step \/ Cancel \/ UpstreamHangs

Spec == Init /\ [][Next]_vars

\* The program takes its next step whenever it has one; the upstream, unless
\* it hangs, answers a pending request. Nothing obliges the caller to cancel
\* or the upstream to hang.
FairSpec == Spec /\ WF_vars(Step)

\* ------------------------------------------------------------------------
\* Vocabulary of the properties
\* ------------------------------------------------------------------------

Range(f) == {f[i] : i \in DOMAIN f}

RECURSIVE Flatten(_)
Flatten(pages) == IF pages = <<>> THEN <<>> ELSE Head(pages) \o Flatten(Tail(pages))

ViaSelect == entry = "SelectChartVersion"

\* The call is over: it returned or it panicked
Over == pc \in {"returned", "panicked"}

\* getLatestVersion was called and is over
ResolverRan == Over /\ "getLatestVersion" \in Range(invoked)

\* The call returned a version
ReturnedVersion == pc = "returned" /\ err = Nil /\ result # <<>>

AllParse == \A i \in DOMAIN versions : NewVersion(versions[i]).ok

SomeUnparsable == \E i \in DOMAIN versions : ~NewVersion(versions[i]).ok

WellFormedConstraint == semverConstraint # <<>> /\ NewConstraint(semverConstraint).ok

\* v satisfies the call's constraint, the empty one being satisfied by all
Satisfies(v) ==
    semverConstraint = <<>> \/ Check(NewConstraint(semverConstraint), v)

Entry(i) == NewVersion(versions[i])

\* Entry i is a greatest one among those that satisfy the constraint
GreatestSatisfying(i) ==
    /\ Satisfies(Entry(i))
    /\ \A j \in DOMAIN versions : Satisfies(Entry(j)) => ~Less(Entry(i), Entry(j))

\* The layers of the error that report a version that does not parse
ParseFailures == {k \in DOMAIN err : err[k].msg = "error parsing version"}

\* p is vs in ascending order with equal entries in their order in vs
IsStableSortOf(p, vs) ==
    /\ Len(p) = Len(vs)
    /\ \E f \in Permutations(1..Len(vs)) :
           /\ \A i \in 1..Len(vs) : p[i] = vs[f[i]]
           /\ \A i, j \in 1..Len(vs) :
                  i < j => \/ Less(p[i], p[j])
                           \/ (Compare(p[i], p[j]) = 0 /\ f[i] < f[j])

IsPermutationOf(p, vs) ==
    /\ Len(p) = Len(vs)
    /\ \E f \in Permutations(1..Len(vs)) : \A i \in 1..Len(vs) : p[i] = vs[f[i]]

\* ------------------------------------------------------------------------
\* Properties
\* ------------------------------------------------------------------------

\* C1: when every raw version parses and the constraint is empty or
\* well-formed, a version w that getLatestVersion returns satisfies the
\* constraint, and no entry of the list that satisfies it is greater than w.
C1_ReturnsGreatestSatisfying ==
    (ResolverRan /\ ReturnedVersion /\ AllParse
        /\ (semverConstraint = <<>> \/ WellFormedConstraint))
    => /\ NewVersion(result).ok
       /\ Satisfies(NewVersion(result))
       /\ \A j \in DOMAIN versions :
              Satisfies(Entry(j)) => ~Less(NewVersion(result), Entry(j))

\* C1 witness: a version is returned under a constraint that two entries of
\* different precedence satisfy.
C1_Witness ==
    /\ ResolverRan /\ ReturnedVersion /\ AllParse /\ WellFormedConstraint
    /\ \E i, j \in DOMAIN versions :
           Satisfies(Entry(i)) /\ Satisfies(Entry(j)) /\ Less(Entry(i), Entry(j))
    /\ \E i \in DOMAIN versions : ~Satisfies(Entry(i))

\* C2: an empty raw list with an empty constraint is returned to the caller
\* as a failure, and no execution faults.
C2_EmptyListIsAFailure ==
    ViaSelect =>
        /\ pc # "panicked"
        /\ (ResolverRan /\ versions = <<>> /\ semverConstraint = <<>>)
               => (pc = "returned" /\ err # Nil /\ result = <<>>)

\* C3: with a classic URL and an empty chart name, SelectChartVersion fails
\* before the classic fetcher is called, and no index GET is issued.
C3_EmptyChartRejectedBeforeFetch ==
    (ViaSelect /\ pc # "SelectChartVersion" /\ chart = <<>>
        /\ (HasPrefix(repoURL, P_HTTP) \/ HasPrefix(repoURL, P_HTTPS)))
    => /\ pc = "returned" /\ err # Nil /\ result = <<>>
       /\ requests = <<>>
       /\ "getChartVersionsFromClassicRepo" \notin Range(invoked)

\* C4: when an entry of the raw list does not parse, getLatestVersion, for
\* any constraint, returns no version and an error that names the first
\* such entry in list order, and names no other.
C4_ParseFailureNamesFirst ==
    (ResolverRan /\ SomeUnparsable)
    => /\ pc = "returned"
       /\ result = <<>>
       /\ ParseFailures # {}
       /\ \A k \in ParseFailures :
              \E i \in DOMAIN versions :
                  /\ err[k].args = <<versions[i]>>
                  /\ ~Entry(i).ok
                  /\ \A j \in 1..(i - 1) : Entry(j).ok

\* C4 witness: the list holds a valid entry and then two different
\* unparsable ones, and the constraint itself is malformed.
C4_Witness ==
    /\ ResolverRan
    /\ semverConstraint # <<>> /\ ~NewConstraint(semverConstraint).ok
    /\ \E i, j, k \in DOMAIN versions :
           /\ i < j /\ j < k
           /\ Entry(i).ok /\ ~Entry(j).ok /\ ~Entry(k).ok
           /\ versions[j] # versions[k]

\* C5: under a well-formed constraint that no version of a fully parsed list
\* satisfies, SelectChartVersion returns the empty string and a nil error.
C5_NoMatchIsNotAnError ==
    (ViaSelect /\ ResolverRan /\ WellFormedConstraint /\ AllParse
        /\ \A i \in DOMAIN versions : ~Satisfies(Entry(i)))
    => (pc = "returned" /\ result = <<>> /\ err = Nil)

\* C5 witness: a non-empty list fetched from a repository, none of whose
\* versions satisfies the constraint.
C5_Witness ==
    /\ ViaSelect /\ ResolverRan /\ WellFormedConstraint /\ AllParse
    /\ Len(versions) >= 2
    /\ \A i \in DOMAIN versions : ~Satisfies(Entry(i))

\* C6: http:// and https:// URLs go to the classic fetcher and to no other,
\* oci:// URLs to the OCI fetcher and to no other, and any other URL is
\* returned as an error naming the URL, with an empty version, without a
\* fetcher or the resolver being called.
C6_DispatchByPrefix ==
    ViaSelect =>
        IF pc = "SelectChartVersion" THEN invoked = <<>> /\ requests = <<>>
        ELSE IF HasPrefix(repoURL, P_HTTP) \/ HasPrefix(repoURL, P_HTTPS)
            THEN /\ invoked # <<>>
                 /\ invoked[1] = "getChartVersionsFromClassicRepo"
                 /\ "getChartVersionsFromOCIRepo" \notin Range(invoked)
                 /\ Len(requests) = 1
        ELSE IF HasPrefix(repoURL, P_OCI)
            THEN /\ invoked # <<>>
                 /\ invoked[1] = "getChartVersionsFromOCIRepo"
                 /\ "getChartVersionsFromClassicRepo" \notin Range(invoked)
                 /\ requests = <<>>
        ELSE /\ pc = "returned"
             /\ result = <<>>
             /\ err = <<Layer("repository URL is invalid", <<repoURL>>)>>
             /\ invoked = <<>>
             /\ requests = <<>>

\* C6 witness: a call with a URL of another scheme has returned.
C6_Witness == ViaSelect /\ repoURL = U_FTP /\ pc = "returned"

\* C7: once the caller's context is cancelled while a request is pending on
\* an upstream that has hung, the call eventually returns.
C7_CancelEndsPendingRequest ==
    (Pending /\ hung /\ ctx = "cancelled") ~> Over

\* C8: when the tag listing completes without error, the versions that
\* getChartVersionsFromOCIRepo returns are the pages concatenated in the
\* order of their delivery.
C8_TagsAreThePagesConcatenated ==
    (ViaSelect /\ invoked # <<>> /\ invoked[1] = "getChartVersionsFromOCIRepo"
        /\ (pc = "getLatestVersion" \/ ResolverRan))
    => versions = Flatten(delivered)

\* C8 witness: a listing of three tags delivered in more than one page has
\* completed.
C8_Witness ==
    /\ ViaSelect /\ pc = "getLatestVersion"
    /\ invoked[1] = "getChartVersionsFromOCIRepo"
    /\ Len(delivered) >= 2
    /\ Len(versions) = 3

C10_ResultIsARawVersion ==
    (ViaSelect /\ ReturnedVersion) => result \in Range(versions)

====
